---- MODULE Spec2Model ----
(***************************************************************************)
(* Model of parallelvicd: the manager/worker pair of drive.py              *)
(* (ManagerWorkerPair) and the partitioning helpers of util.py.            *)
(*                                                                         *)
(* Python lists and numpy arrays are functions on 0..n-1, so an index of   *)
(* the model is the index of the source.                                   *)
(***************************************************************************)
EXTENDS Integers, Sequences, FiniteSets, TLC

\* ------------------------------------------------------------------ bounds
MaxProcs == 3      \* largest MPI world size (pypar.size())
MaxData == 3       \* largest data.shape[0]
MaxBcasts == 3     \* most broadcasts (eval or terminate) the manager issues
MaxTask == 6       \* largest ntask given to the util functions
MaxWorker == 4     \* largest nworker given to the util functions

\* --------------------------------------------------------- program constants
InsSize == 3       \* ins_size of the example program
NaN == 0 - 1000    \* numpy.nan, a value outside the arithmetic that is used

\* ------------------------------------------------------- 0-based list helpers
Len0(a) == Cardinality(DOMAIN a)

Min2(a, b) == IF a < b THEN a ELSE b

Max2(a, b) == IF a > b THEN a ELSE b

\* a[l:h] of Python for 0 <= l, 0 <= h: bounds are clamped to the length
Slice0(a, l, h) ==
    LET hh == Min2(h, Len0(a))
        ll == Min2(l, hh)
    IN  [i \in 0..(hh - ll - 1) |-> a[ll + i]]

\* a + b of Python lists
Cat0(a, b) ==
    [i \in 0..(Len0(a) + Len0(b) - 1) |->
        IF i < Len0(a) THEN a[i] ELSE b[i - Len0(a)]]

\* Option values: None is <<>>, a present value x is <<x>>
None == <<>>

Some(x) == <<x>>

\* ------------------------------------------------------------------- util.py
\* balance without the shift by the remainder in the second branch
balance_noremainder(ntask, nworker, idxworker) ==
    IF idxworker >= nworker
    THEN <<ntask, ntask>>
    ELSE LET divisor == ntask \div nworker
             remainder == ntask % nworker
         IN  IF idxworker < remainder
             THEN LET low == idxworker * (divisor + 1)
                  IN  <<low, low + divisor + 1>>
             ELSE LET low == idxworker * divisor
                  IN  <<low, low + divisor>>

balance(ntask, nworker, idxworker) ==
    IF idxworker >= nworker
    THEN <<ntask, ntask>>
    ELSE LET divisor == ntask \div nworker
             remainder == ntask % nworker
         IN  IF idxworker < remainder
             THEN LET low == idxworker * (divisor + 1)
                  IN  <<low, low + divisor + 1>>
             ELSE LET low == remainder + idxworker * divisor
                  IN  <<low, low + divisor>>

\* scanl(iterable) with f = operator.add, starting = 0: the running sums,
\* one element more than the input
RECURSIVE scanl(_)
scanl(it) ==
    IF Len0(it) = 0
    THEN [i \in 0..0 |-> 0]
    ELSE LET n == Len0(it)
             prev == scanl(Slice0(it, 0, n - 1))
         IN  Cat0(prev, [i \in 0..0 |-> prev[n - 1] + it[n - 1]])

\* result of a util call: err is "none" or the exception that was raised
UtilOk(c, o) == [err |-> "none", counts |-> c, offsets |-> o]

UtilRaise(e) == [err |-> e, counts |-> <<>>, offsets |-> <<>>]

\* balance_gatherv that drops the first running sum instead of the last
balance_gatherv_tail(ntask, nworker) ==
    IF nworker = 0
    THEN UtilRaise("ZeroDivisionError")
    ELSE LET divisor == ntask \div nworker
             remainder == ntask % nworker
             counts == [i \in 0..(nworker - 1) |->
                           divisor + (IF i < remainder THEN 1 ELSE 0)]
             all == scanl(counts)
             offsets == Slice0(all, 1, Len0(all))
         IN  UtilOk(counts, offsets)

balance_gatherv(ntask, nworker) ==
    IF nworker = 0
    THEN UtilRaise("ZeroDivisionError")
    ELSE LET divisor == ntask \div nworker
             remainder == ntask % nworker
             counts == [i \in 0..(nworker - 1) |->
                           divisor + (IF i < remainder THEN 1 ELSE 0)]
             all == scanl(counts)
             offsets == Slice0(all, 0, Len0(all) - 1)
         IN  UtilOk(counts, offsets)

balance_gatherv_skipmanager(ntask, nworker, managerrank) ==
    LET raw == balance_gatherv(ntask, nworker)
    IN  IF raw.err # "none"
        THEN raw
        ELSE LET rawcounts == raw.counts
                 rawoffsets == raw.offsets
                 counts == Cat0(Cat0(Slice0(rawcounts, 0, managerrank),
                                     [i \in 0..0 |-> 0]),
                                Slice0(rawcounts, managerrank, Len0(rawcounts)))
             IN  IF managerrank >= Len0(rawoffsets)
                 THEN UtilRaise("IndexError")
                 ELSE UtilOk(counts,
                             Cat0(Cat0(Slice0(rawoffsets, 0, managerrank),
                                       [i \in 0..0 |-> rawoffsets[managerrank]]),
                                  Slice0(rawoffsets, managerrank,
                                         Len0(rawoffsets))))

\* ------------------------------------------------------------------- state
VARIABLES
    size,          \* pypar.size(): number of MPI processes of the run
    manager_rank,  \* manager_rank argument, the same in every process
    work_size,     \* data.shape[0] of the data argument
    pc,            \* pc[p]: where process p (an MPI rank) is in its program
    obj,           \* obj[p]: attributes of the ManagerWorkerPair of process p
    loc,           \* loc[p]: local variables of the running method of p
    bcastq,        \* bcastq[p]: broadcasts of the root not yet received by p
    replyq,        \* replyq[p]: messages sent by p to the manager, in order
    ret,           \* ret[p]: the last call that returned in p, and its value
    nbcast,        \* number of broadcasts the manager has issued
    nterm,         \* number of terminate() calls of the manager
    returned,      \* ins and result of every eval that returned on the manager, in order
    wrapped,       \* the last call of a function wrapped by confineto
    ucall          \* the last call of a util function and its result

vars == <<size, manager_rank, work_size, pc, obj, loc, bcastq, replyq, ret,
          nbcast, nterm, returned, wrapped, ucall>>

envvars == <<size, manager_rank, work_size>>

Procs == 0..(size - 1)

AllProcs == 0..(MaxProcs - 1)

\* ---------------------------------------------------------------- numerics
\* numpy addition: NaN propagates
Add(a, b) == IF a = NaN \/ b = NaN THEN NaN ELSE a + b

\* numpy.ndarray.max(): NaN if any element is NaN
RECURSIVE ArrMaxUpTo(_, _)
ArrMaxUpTo(a, n) ==
    IF n = 0 THEN a[0]
    ELSE LET m == ArrMaxUpTo(a, n - 1)
         IN  IF m = NaN \/ a[n] = NaN THEN NaN ELSE Max2(m, a[n])

ArrMax(a) == ArrMaxUpTo(a, Len0(a) - 1)

\* (a == numpy.nan).all(): NaN compares unequal to itself
IsnanAll_eq(a) == \A i \in DOMAIN a : a[i] = NaN /\ a[i] # NaN

\* numpy.isnan(a).any(): one NaN is enough
IsnanAll_any(a) == \E i \in DOMAIN a : a[i] = NaN

\* numpy.isnan(a).all()
IsnanAll(a) == \A i \in DOMAIN a : a[i] = NaN

\* an array of which only the first element is NaN
NanArray_first(n) == [i \in 0..(n - 1) |-> IF i = 0 THEN NaN ELSE 0]

\* numpy.array([numpy.nan] * ins_size)
NanArray(n) == [i \in 0..(n - 1) |-> NaN]

\* numpy.empty(n): n cells of whatever the allocator left there
EmptyFill == {NaN, 0 - 7}

Empty(n, g) == [i \in 0..(n - 1) |-> g]

\* data = numpy.arange(12.0) of the example, in units that keep the
\* elements apart after an addend is added
Dataset(n) == [i \in 0..(n - 1) |-> 10 * i]

\* worker_routine of the example: data + instruction.max()
worker_routine(instruction, data) ==
    [i \in DOMAIN data |-> Add(data[i], ArrMax(instruction))]

Vec3(a, b, c) == (0 :> a) @@ (1 :> b) @@ (2 :> c)

\* instruction arrays handed to eval: the two of the example, the all-NaN
\* array and one with some, not all, elements NaN
Instructions ==
    {Vec3(1, 0, 0 - 1), Vec3(0 - 10, 0, 2), NanArray(InsSize), Vec3(NaN, 0, NaN)}

\* a[i] of a Python list: negative indices count from the end
PyIndexOk(a, i) == i < Len0(a) /\ i >= 0 - Len0(a)

PyIndex(a, i) == IF i < 0 THEN a[i + Len0(a)] ELSE a[i]

\* ---------------------------------------------------------------- drive.py
tag_data == 55930

\* the worker id taken to be the rank itself
myworkerid_noshift(rank, mrank) == rank

\* self.myworkerid of __init__
myworkerid(rank, mrank) == rank - (IF rank > mrank THEN 1 ELSE 0)

\* thisworker computed as if the manager were always rank 0
thisworker_rank0(source, mrank) == source - 1

\* thisworker of manager()
thisworker(source, mrank) == source - (IF source > mrank THEN 1 ELSE 0)

\* ismanager with >= for ==
ismanager_ge(rank, mrank) == rank >= mrank

\* self.ismanager of __init__
ismanager(rank, mrank) == rank = mrank

\* the test with < for <=
NoWorkers_lt(sz) == sz < 1

\* the test of __init__ that raises RuntimeError("No workers")
NoWorkers(sz) == sz <= 1

slice_table(wsize, nworkers) ==
    [i \in 0..(nworkers - 1) |-> balance(wsize, nworkers, i)]

NoCall == [call |-> "none", val |-> None]

NoLoc == [ins |-> <<>>, il |-> FALSE, ires |-> None, icalls |-> 0,
          work_done |-> 0, res |-> None]

\* attributes set by __init__ in every process before the role is looked at
CommonAttrs(p) ==
    [size |-> size, rank |-> p, nworkers |-> size - 1, ins_size |-> InsSize,
     manager_rank |-> manager_rank,
     ismanager |-> ismanager(p, manager_rank),
     work_size |-> work_size,
     slice_table |-> slice_table(work_size, size - 1),
     tag_data |-> tag_data]

WorkerAttrs(p, g) ==
    LET wid == myworkerid(p, manager_rank)
        st == slice_table(work_size, size - 1)
    IN  [ins_buf |-> Empty(InsSize, g), worker_started |-> FALSE,
         myworkerid |-> wid, data |-> Dataset(work_size),
         mylow |-> PyIndex(st, wid)[1], myhigh |-> PyIndex(st, wid)[2]]

\* the receive buffer sized to the slice of the last worker
ManagerAttrs_last(g) ==
    LET st == slice_table(work_size, size - 1)
    IN  [res_buf |-> Empty(work_size, g),
         managerrecvbuf |-> Empty(st[size - 2][2] - st[size - 2][1], g)]

ManagerAttrs(g) ==
    LET st == slice_table(work_size, size - 1)
    IN  [res_buf |-> Empty(work_size, g),
         managerrecvbuf |-> Empty(st[0][2] - st[0][1], g)]

\* ManagerWorkerPair(worker_routine, InsSize, data, manager_rank) in process p
Ctor(p) ==
    /\ p \in Procs
    /\ pc[p] = "start"
    /\ \E junk \in EmptyFill :
       IF NoWorkers(size)
       THEN \* RuntimeError: only self.size has been set
            /\ obj' = [obj EXCEPT ![p] = [size |-> size]]
            /\ pc' = [pc EXCEPT ![p] = "error"]
       ELSE IF ~PyIndexOk(slice_table(work_size, size - 1),
                          IF ismanager(p, manager_rank) THEN 0
                          ELSE myworkerid(p, manager_rank))
            THEN \* IndexError in self.slice_table[...]
                 /\ obj' = [obj EXCEPT ![p] = CommonAttrs(p)]
                 /\ pc' = [pc EXCEPT ![p] = "error"]
            ELSE IF ~ismanager(p, manager_rank)
                 THEN \* startworker(): the loop is entered, the call blocks
                      /\ obj' = [obj EXCEPT ![p] =
                            [CommonAttrs(p) @@ WorkerAttrs(p, junk)
                                EXCEPT !.worker_started = TRUE]]
                      /\ pc' = [pc EXCEPT ![p] = "bcast"]
                 ELSE /\ obj' = [obj EXCEPT ![p] =
                            CommonAttrs(p) @@ ManagerAttrs(junk)]
                      /\ pc' = [pc EXCEPT ![p] = "main"]
    /\ UNCHANGED <<envvars, loc, bcastq, replyq, ret, nbcast, nterm, returned,
                   wrapped, ucall>>

\* pypar.broadcast(ins, root=manager_rank) called by the root
Broadcast(ins) ==
    [q \in Procs |-> IF q = manager_rank THEN bcastq[q]
                     ELSE Append(bcastq[q], ins)]

\* eval(ins, interlude_callback); il tells whether an interlude is given
Eval(p, ins, il) ==
    /\ p \in Procs
    /\ pc[p] = "main"
    /\ IF obj[p].ismanager
       THEN /\ nbcast < MaxBcasts
            /\ bcastq' = Broadcast(ins)
            /\ nbcast' = nbcast + 1
            /\ loc' = [loc EXCEPT ![p] = [NoLoc EXCEPT !.ins = ins, !.il = il]]
            /\ pc' = [pc EXCEPT ![p] = IF il THEN "interlude" ELSE "recv"]
            /\ UNCHANGED ret
       ELSE /\ ret' = [ret EXCEPT ![p] =
                  [call |-> "eval", val |-> <<None, None>>]]
            /\ UNCHANGED <<bcastq, nbcast, loc, pc>>
    /\ UNCHANGED <<envvars, obj, replyq, nterm, returned, wrapped, ucall>>

\* an interlude whose value is dropped
Interlude_discard(p) ==
    /\ p \in Procs
    /\ pc[p] = "interlude"
    /\ loc' = [loc EXCEPT ![p].icalls = loc[p].icalls + 1]
    /\ pc' = [pc EXCEPT ![p] = "recv"]
    /\ UNCHANGED <<envvars, obj, bcastq, replyq, ret, nbcast, nterm, returned,
                   wrapped, ucall>>

\* ires = interlude_callback(*i_args, **i_kwargs)
Interlude(p) ==
    /\ p \in Procs
    /\ pc[p] = "interlude"
    /\ loc' = [loc EXCEPT ![p].ires = Some("ires"),
                          ![p].icalls = loc[p].icalls + 1]
    /\ pc' = [pc EXCEPT ![p] = "recv"]
    /\ UNCHANGED <<envvars, obj, bcastq, replyq, ret, nbcast, nterm, returned,
                   wrapped, ucall>>

\* a receive that leaves the buffer alone
RecvInto_ignored(buf, msg) == buf

\* pypar.receive(..., buffer=buf): the message fills the front of the buffer
RecvInto(buf, msg) ==
    [i \in DOMAIN buf |-> IF i < Len0(msg) THEN msg[i] ELSE buf[i]]

\* the copy written at the start of the result buffer: res_buf[:sh - sl]
CopySlice_from0(res, sl, sh, buf) ==
    [i \in DOMAIN res |-> IF i < sh - sl THEN buf[i] ELSE res[i]]

\* res_buf[sl:sh] = managerrecvbuf[:sh - sl]
CopySlice(res, sl, sh, buf) ==
    [i \in DOMAIN res |-> IF i >= sl /\ i < sh THEN buf[i - sl] ELSE res[i]]

\* one pass of the receive loop of manager(); the pass that counts the last
\* reply also returns from manager() and from eval()
ManagerRecv(p, src) ==
    /\ p \in Procs
    /\ src \in Procs
    /\ pc[p] = "recv"
    /\ loc[p].work_done < obj[p].nworkers
    /\ Len(replyq[src]) > 0
    /\ Head(replyq[src]).tag = obj[p].tag_data
    /\ replyq' = [replyq EXCEPT ![src] = Tail(replyq[src])]
    /\ LET msg == Head(replyq[src]).payload
           buf == RecvInto(obj[p].managerrecvbuf, msg)
           tw == thisworker(src, obj[p].manager_rank)
       IN  IF \/ Len0(msg) > Len0(obj[p].managerrecvbuf)
              \/ ~PyIndexOk(obj[p].slice_table, tw)
           THEN \* message truncated, or IndexError
                /\ pc' = [pc EXCEPT ![p] = "crashed"]
                /\ UNCHANGED <<obj, loc, ret, returned>>
           ELSE LET sl == PyIndex(obj[p].slice_table, tw)[1]
                    sh == PyIndex(obj[p].slice_table, tw)[2]
                    res == CopySlice(obj[p].res_buf, sl, sh, buf)
                    done == loc[p].work_done + 1
                IN  IF sh - sl > Len0(buf)
                    THEN \* ValueError: shapes do not match
                         /\ pc' = [pc EXCEPT ![p] = "crashed"]
                         /\ obj' = [obj EXCEPT ![p].managerrecvbuf = buf]
                         /\ UNCHANGED <<loc, ret, returned>>
                    ELSE /\ obj' = [obj EXCEPT ![p].managerrecvbuf = buf,
                                               ![p].res_buf = res]
                         /\ IF done < obj[p].nworkers
                            THEN /\ loc' = [loc EXCEPT ![p].work_done = done]
                                 /\ UNCHANGED <<pc, ret, returned>>
                            ELSE /\ loc' = [loc EXCEPT ![p] = NoLoc]
                                 /\ pc' = [pc EXCEPT ![p] = "main"]
                                 /\ ret' = [ret EXCEPT ![p] =
                                       [call |-> "eval",
                                        val |-> <<Some(res), loc[p].ires>>]]
                                 /\ returned' = Append(returned,
                                       [ins |-> loc[p].ins, res |-> res])
    /\ UNCHANGED <<envvars, bcastq, nbcast, nterm, wrapped, ucall>>

\* worker(): pypar.broadcast(self.ins_buf, ...) returns with the next
\* instruction; the all-NaN one ends the loop, and with it startworker()
\* and __init__
WorkerBcast(p) ==
    /\ p \in Procs
    /\ pc[p] = "bcast"
    /\ Len(bcastq[p]) > 0
    /\ bcastq' = [bcastq EXCEPT ![p] = Tail(bcastq[p])]
    /\ obj' = [obj EXCEPT ![p].ins_buf = Head(bcastq[p])]
    /\ IF IsnanAll(Head(bcastq[p]))
       THEN /\ pc' = [pc EXCEPT ![p] = "main"]
            /\ loc' = [loc EXCEPT ![p] = NoLoc]
       ELSE /\ pc' = [pc EXCEPT ![p] = "work"]
            /\ UNCHANGED loc
    /\ UNCHANGED <<envvars, replyq, ret, nbcast, nterm, returned,
                   wrapped, ucall>>

\* a worker that goes back to the broadcast without sending its result
WorkerWork_noreply(p) ==
    /\ p \in Procs
    /\ pc[p] = "work"
    /\ pc' = [pc EXCEPT ![p] = "bcast"]
    /\ UNCHANGED <<envvars, obj, loc, bcastq, replyq, ret, nbcast, nterm,
                   returned, wrapped, ucall>>

\* a worker that sends its result twice
WorkerWork_twice(p) ==
    /\ p \in Procs
    /\ pc[p] = "work"
    /\ LET res == worker_routine(obj[p].ins_buf,
                                 Slice0(obj[p].data, obj[p].mylow, obj[p].myhigh))
           msg == [tag |-> obj[p].tag_data, payload |-> res]
       IN  /\ loc' = [loc EXCEPT ![p].res = Some(res)]
           /\ replyq' = [replyq EXCEPT ![p] = Append(Append(replyq[p], msg), msg)]
    /\ pc' = [pc EXCEPT ![p] = "bcast"]
    /\ UNCHANGED <<envvars, obj, bcastq, ret, nbcast, nterm, returned,
                   wrapped, ucall>>

\* worker(): the callback returns and its value is sent to the manager
WorkerWork(p) ==
    /\ p \in Procs
    /\ pc[p] = "work"
    /\ LET res == worker_routine(obj[p].ins_buf,
                                 Slice0(obj[p].data, obj[p].mylow, obj[p].myhigh))
       IN  /\ loc' = [loc EXCEPT ![p].res = Some(res)]
           /\ replyq' = [replyq EXCEPT ![p] =
                 Append(replyq[p], [tag |-> obj[p].tag_data, payload |-> res])]
    /\ pc' = [pc EXCEPT ![p] = "bcast"]
    /\ UNCHANGED <<envvars, obj, bcastq, ret, nbcast, nterm, returned,
                   wrapped, ucall>>

\* a callback that fails only after its result has been sent
WorkerRaise_replied(p) ==
    /\ p \in Procs
    /\ pc[p] = "work"
    /\ pc' = [pc EXCEPT ![p] = "crashed"]
    /\ replyq' = [replyq EXCEPT ![p] =
          Append(replyq[p], [tag |-> obj[p].tag_data,
                             payload |-> worker_routine(obj[p].ins_buf,
                                Slice0(obj[p].data, obj[p].mylow,
                                       obj[p].myhigh))])]
    /\ UNCHANGED <<envvars, obj, loc, bcastq, ret, nbcast, nterm,
                   returned, wrapped, ucall>>

\* worker(): the callback raises; the exception leaves the loop and ends
\* the process
WorkerRaise(p) ==
    /\ p \in Procs
    /\ pc[p] = "work"
    /\ pc' = [pc EXCEPT ![p] = "crashed"]
    /\ UNCHANGED <<envvars, obj, loc, bcastq, replyq, ret, nbcast, nterm,
                   returned, wrapped, ucall>>

\* terminate()
Terminate(p) ==
    /\ p \in Procs
    /\ pc[p] = "main"
    /\ IF obj[p].ismanager
       THEN /\ nbcast < MaxBcasts
            /\ bcastq' = Broadcast(NanArray(obj[p].ins_size))
            /\ nbcast' = nbcast + 1
            /\ nterm' = nterm + 1
       ELSE UNCHANGED <<bcastq, nbcast, nterm>>
    /\ ret' = [ret EXCEPT ![p] = [call |-> "terminate", val |-> None]]
    /\ UNCHANGED <<envvars, pc, obj, loc, replyq, returned, wrapped, ucall>>

\* startworker without the one-shot flag: a worker enters the loop again
StartWorker_noguard(p) ==
    /\ p \in Procs
    /\ pc[p] = "main"
    /\ IF obj[p].ismanager
       THEN UNCHANGED <<obj, pc>>
       ELSE /\ obj' = [obj EXCEPT ![p].worker_started = TRUE]
            /\ pc' = [pc EXCEPT ![p] = "bcast"]
    /\ ret' = [ret EXCEPT ![p] =
          [call |-> "startworker", val |-> None]]
    /\ UNCHANGED <<envvars, loc, bcastq, replyq, nbcast, nterm, returned,
                   wrapped, ucall>>

\* startworker() called again after construction
StartWorker(p) ==
    /\ p \in Procs
    /\ pc[p] = "main"
    /\ IF obj[p].ismanager
       THEN UNCHANGED <<obj, pc>>
       ELSE IF ~obj[p].worker_started
            THEN /\ obj' = [obj EXCEPT ![p].worker_started = TRUE]
                 /\ pc' = [pc EXCEPT ![p] = "bcast"]
            ELSE UNCHANGED <<obj, pc>>
    /\ ret' = [ret EXCEPT ![p] =
          [call |-> "startworker", val |-> None]]
    /\ UNCHANGED <<envvars, loc, bcastq, replyq, nbcast, nterm, returned,
                   wrapped, ucall>>

\* ------------------------------------------------------- confineto
\* a default predicate that takes rank 0 for the manager
rankpredicate_zero(rank, mrank) == rank = 0

\* the default rankpredicate of confineto
rankpredicate(rank, mrank) == rank = mrank

\* rank predicates handed to confineto: rank == 0 and rank != 0, as the
\* set of ranks where they hold
PredRanks == {{0}, AllProcs \ {0}}

\* otherwise arguments of confineto: None or a callable
Others == {"None", "callable"}

\* arguments the wrapped function is called with
WrapArgs == {5}

NoWrapped == [proc |-> 0 - 1, haspred |-> FALSE, ranks |-> {},
              other |-> "None", arg |-> 0, called |-> "nocall", val |-> None]

\* confineto(function, rankpredicate, otherwise)(arg) in process p;
\* haspred = FALSE is rankpredicate=None
ConfinedCall(p, haspred, ranks, other, arg) ==
    /\ p \in Procs
    /\ pc[p] = "main"
    /\ LET holds == IF haspred THEN obj[p].rank \in ranks
                    ELSE rankpredicate(obj[p].rank, obj[p].manager_rank)
           called == IF holds THEN "function"
                     ELSE IF other = "callable" THEN "otherwise" ELSE "none"
       IN  wrapped' = [proc |-> p, haspred |-> haspred,
                       ranks |-> IF haspred THEN ranks ELSE {},
                       other |-> other, arg |-> arg, called |-> called,
                       val |-> IF called = "none" THEN None
                               ELSE Some(<<called, arg>>)]
    /\ UNCHANGED <<envvars, pc, obj, loc, bcastq, replyq, ret, nbcast, nterm,
                   returned, ucall>>

\* ------------------------------------------------------- calls of util.py
NoUcall == [fn |-> "none", ntask |-> 0, nworker |-> 0, idx |-> 0,
            pair |-> <<0, 0>>, table |-> <<>>, res |-> UtilOk(<<>>, <<>>)]

\* balance(ntask, nworker, idxworker)
CallBalance(ntask, nworker, idxworker) ==
    /\ ucall' = [NoUcall EXCEPT !.fn = "balance", !.ntask = ntask,
                    !.nworker = nworker, !.idx = idxworker,
                    !.pair = balance(ntask, nworker, idxworker)]
    /\ UNCHANGED <<envvars, pc, obj, loc, bcastq, replyq, ret, nbcast, nterm,
                   returned, wrapped>>

\* [balance(ntask, nworker, i) for i in xrange(nworker)] of __init__
CallSliceTable(ntask, nworker) ==
    /\ ucall' = [NoUcall EXCEPT !.fn = "slice_table", !.ntask = ntask,
                    !.nworker = nworker,
                    !.table = slice_table(ntask, nworker)]
    /\ UNCHANGED <<envvars, pc, obj, loc, bcastq, replyq, ret, nbcast, nterm,
                   returned, wrapped>>

\* balance_gatherv(ntask, nworker)
CallGatherv(ntask, nworker) ==
    /\ ucall' = [NoUcall EXCEPT !.fn = "balance_gatherv", !.ntask = ntask,
                    !.nworker = nworker,
                    !.res = balance_gatherv(ntask, nworker)]
    /\ UNCHANGED <<envvars, pc, obj, loc, bcastq, replyq, ret, nbcast, nterm,
                   returned, wrapped>>

\* balance_gatherv_skipmanager(ntask, nworker, managerrank)
CallSkipManager(ntask, nworker, managerrank) ==
    /\ ucall' = [NoUcall EXCEPT !.fn = "balance_gatherv_skipmanager",
                    !.ntask = ntask, !.nworker = nworker, !.idx = managerrank,
                    !.res = balance_gatherv_skipmanager(ntask, nworker,
                                                        managerrank)]
    /\ UNCHANGED <<envvars, pc, obj, loc, bcastq, replyq, ret, nbcast, nterm,
                   returned, wrapped>>

\* the processes are started by mpirun: nothing is constructed yet
Init ==
    /\ size \in 1..MaxProcs
    /\ manager_rank \in 0..(size - 1)
    /\ work_size \in 0..MaxData
    /\ pc = [p \in Procs |-> "start"]
    /\ obj = [p \in Procs |-> <<>>]
    /\ loc = [p \in Procs |-> NoLoc]
    /\ bcastq = [p \in Procs |-> <<>>]
    /\ replyq = [p \in Procs |-> <<>>]
    /\ ret = [p \in Procs |-> NoCall]
    /\ nbcast = 0
    /\ nterm = 0
    /\ returned = <<>>
    /\ wrapped = NoWrapped
    /\ ucall = NoUcall

\* the program of the example as far as it has an effect: construction in
\* every process, eval calls without an interlude and terminate in the
\* manager
Next ==
    \/ \E p \in AllProcs : Ctor(p)
    \/ \E ins \in Instructions : Eval(manager_rank, ins, FALSE)
    \/ \E p \in AllProcs, src \in AllProcs : ManagerRecv(p, src)
    \/ \E p \in AllProcs : WorkerBcast(p)
    \/ \E p \in AllProcs : WorkerWork(p)
    \/ \E p \in AllProcs : WorkerRaise(p)
    \/ Terminate(manager_rank)

Spec == Init /\ [][Next]_vars

\* the rest of the example program: what the workers run once terminate
\* has let them out of the constructor, the eval and terminate calls that
\* the manager has already made
NextAfter ==
    \/ \E p \in AllProcs : Ctor(p)
    \/ \E p \in AllProcs : WorkerBcast(p)
    \/ Terminate(manager_rank)
    \/ \E p \in AllProcs \ {manager_rank}, ins \in Instructions :
          Eval(p, ins, FALSE)
    \/ \E p \in AllProcs \ {manager_rank} : Terminate(p)

SpecAfter == Init /\ [][NextAfter]_vars

\* a program that only wraps functions with confineto and calls them,
\* before and after terminate
NextConfine ==
    \/ \E p \in AllProcs : Ctor(p)
    \/ \E p \in AllProcs : WorkerBcast(p)
    \/ \E p \in AllProcs : Terminate(p)
    \/ \E p \in AllProcs, other \in Others, arg \in WrapArgs :
          ConfinedCall(p, FALSE, {}, other, arg)
    \/ \E p \in AllProcs, ranks \in PredRanks, other \in Others,
          arg \in WrapArgs :
          ConfinedCall(p, TRUE, ranks, other, arg)

SpecConfine == Init /\ [][NextConfine]_vars

\* a program that only calls the functions of util.py: no MPI process of
\* the pair exists
InitUtil ==
    /\ size = 0
    /\ manager_rank = 0
    /\ work_size = 0
    /\ pc = <<>>
    /\ obj = <<>>
    /\ loc = <<>>
    /\ bcastq = <<>>
    /\ replyq = <<>>
    /\ ret = <<>>
    /\ nbcast = 0
    /\ nterm = 0
    /\ returned = <<>>
    /\ wrapped = NoWrapped
    /\ ucall = NoUcall

NextUtil ==
    \/ \E ntask \in 0..MaxTask, nworker \in 0..MaxWorker,
          idxworker \in 0..(MaxWorker + 1) :
          CallBalance(ntask, nworker, idxworker)
    \/ \E ntask \in 0..MaxTask, nworker \in 1..MaxWorker :
          CallSliceTable(ntask, nworker)
    \/ \E ntask \in 0..MaxTask, nworker \in 0..MaxWorker :
          CallGatherv(ntask, nworker)
    \/ \E ntask \in 0..MaxTask, nworker \in 0..MaxWorker,
          managerrank \in 0..MaxWorker :
          CallSkipManager(ntask, nworker, managerrank)

SpecUtil == InitUtil /\ [][NextUtil]_vars

\* what process p does by itself, without a new call from its program:
\* the constructor when the process starts, the worker loop, the receive
\* loop of a running eval
ProcStep(p) ==
    \/ Ctor(p)
    \/ WorkerBcast(p)
    \/ WorkerWork(p)
    \/ WorkerRaise(p)
    \/ \E src \in AllProcs : ManagerRecv(p, src)

\* every process runs whenever it can: the processes are separate MPI
\* processes, none waits for anything but its own blocking call
\* instruction arrays of the runs that are checked for progress: the
\* first one of the example and the all-NaN array
LiveInstructions == {Vec3(1, 0, 0 - 1), NanArray(InsSize)}

NextLive ==
    \/ \E p \in AllProcs : Ctor(p)
    \/ \E ins \in LiveInstructions : Eval(manager_rank, ins, FALSE)
    \/ \E p \in AllProcs, src \in AllProcs : ManagerRecv(p, src)
    \/ \E p \in AllProcs : WorkerBcast(p)
    \/ \E p \in AllProcs : WorkerWork(p)
    \/ \E p \in AllProcs : WorkerRaise(p)
    \/ Terminate(manager_rank)

\* every process runs whenever it can: the processes are separate MPI
\* processes, none waits for anything but its own blocking call
FairSpec ==
    Init /\ [][NextLive]_vars /\ \A p \in AllProcs : WF_vars(ProcStep(p))

\* a program that calls startworker() by hand: the manager at any time
\* between its calls, a worker once terminate has let it out of the
\* constructor
NextStart ==
    \/ \E p \in AllProcs : Ctor(p)
    \/ \E p \in AllProcs : WorkerBcast(p)
    \/ Terminate(manager_rank)
    \/ \E p \in AllProcs : StartWorker(p)

SpecStart == Init /\ [][NextStart]_vars

\* a manager program whose evals are made with or without an interlude
\* callback
NextInterlude ==
    \/ \E p \in AllProcs : Ctor(p)
    \/ \E ins \in LiveInstructions, il \in BOOLEAN :
          Eval(manager_rank, ins, il)
    \/ \E p \in AllProcs : Interlude(p)
    \/ \E p \in AllProcs, src \in AllProcs : ManagerRecv(p, src)
    \/ \E p \in AllProcs : WorkerBcast(p)
    \/ \E p \in AllProcs : WorkerWork(p)
    \/ Terminate(manager_rank)

SpecInterlude == Init /\ [][NextInterlude]_vars

\* the usage the class is written for, that of the example program: the
\* manager makes evals of instructions that are not all NaN, then one
\* terminate, and nothing after it; no callback raises.  One broadcast of
\* the MaxBcasts is kept for the terminate.
UsageInstructions == {Vec3(1, 0, 0 - 1), Vec3(NaN, 0, NaN)}

NextUsage ==
    \/ \E p \in AllProcs : Ctor(p)
    \/ \E ins \in UsageInstructions :
          /\ nterm = 0
          /\ nbcast + 1 < MaxBcasts
          /\ Eval(manager_rank, ins, FALSE)
    \/ \E p \in AllProcs, src \in AllProcs : ManagerRecv(p, src)
    \/ \E p \in AllProcs : WorkerBcast(p)
    \/ \E p \in AllProcs : WorkerWork(p)
    \/ nterm = 0 /\ Terminate(manager_rank)

\* what process p does by itself when no callback raises
UsageStep(p) ==
    \/ Ctor(p)
    \/ WorkerBcast(p)
    \/ WorkerWork(p)
    \/ \E src \in AllProcs : ManagerRecv(p, src)

\* every process runs whenever it can, and the manager's program is
\* finite: it comes to its terminate call
FairUsage ==
    /\ Init /\ [][NextUsage]_vars
    /\ \A p \in AllProcs : WF_vars(UsageStep(p))
    /\ WF_vars(nterm = 0 /\ Terminate(manager_rank))

\* ------------------------------------------------------------------ claims
IsWorker(p) == p \in Procs /\ p # manager_rank

\* C1: when eval(ins) returns on the manager, the slice of the result
\* buffer of every worker-id holds what that worker's callback returned for
\* ins in this round, and the whole buffer is the callback applied to the
\* whole dataset
C1_EvalResult ==
    [][\A m \in Procs :
          (pc[m] = "recv" /\ pc'[m] = "main") =>
             LET res == ret'[m].val[1][1]
             IN  /\ ret'[m].call = "eval"
                 /\ res = obj'[m].res_buf
                 /\ \A p \in Procs \ {m} :
                       LET w == obj[p].myworkerid
                           sl == obj[m].slice_table[w]
                       IN  /\ obj[p].ins_buf = loc[m].ins
                           /\ loc[p].res # None
                           /\ Slice0(res, sl[1], sl[2]) = loc[p].res[1]
                           /\ loc[p].res[1] =
                                 worker_routine(loc[m].ins,
                                     Slice0(Dataset(work_size), sl[1], sl[2]))
                 /\ res = worker_routine(loc[m].ins, Dataset(work_size))]_vars

\* C1 witness: an eval has returned with the manager between the two
\* workers, slices of different lengths, and the reply of worker-id 0
\* received last
C1_Witness ==
    /\ size = 3 /\ manager_rank = 1 /\ work_size = 3
    /\ pc[1] = "main" /\ ret[1].call = "eval"
    /\ Len(returned) > 0
    /\ obj[1].managerrecvbuf = loc[0].res[1]

\* C2: the ranges of balance for the worker indices of a table are
\* contiguous in index order, pairwise disjoint, cover [0, ntask) exactly
\* and differ in size by at most 1
C2_BalancePartition ==
    (ucall.fn = "slice_table" /\ ucall.nworker >= 1) =>
       LET t == ucall.table
           n == ucall.nworker
           sz(i) == t[i][2] - t[i][1]
       IN  /\ Len0(t) = n
           /\ t[0][1] = 0
           /\ t[n - 1][2] = ucall.ntask
           /\ \A i \in 0..(n - 1) : t[i][1] <= t[i][2]
           /\ \A i \in 0..(n - 2) : t[i][2] = t[i + 1][1]
           /\ \A i, j \in 0..(n - 1) :
                 i # j => \A k \in t[i][1]..(t[i][2] - 1) :
                             ~(t[j][1] <= k /\ k < t[j][2])
           /\ \A k \in 0..(ucall.ntask - 1) :
                 \E i \in 0..(n - 1) : t[i][1] <= k /\ k < t[i][2]
           /\ \A i, j \in 0..(n - 1) : sz(i) - sz(j) <= 1

\* C2 witness: a table with a remainder, some ranges longer than others
C2_Witness ==
    /\ ucall.fn = "slice_table" /\ ucall.ntask = 5 /\ ucall.nworker = 3
    /\ ucall.table[0] = <<0, 2>> /\ ucall.table[2] = <<4, 5>>

AllWorkersExited == \A p \in Procs : IsWorker(p) => pc[p] = "main"

\* C3: once the manager has called terminate, every worker eventually
\* leaves its loop; a worker leaves the loop on the all-NaN instruction
\* without sending anything, and once out of the loop it stays out, sends
\* nothing and receives no broadcast
C3_TerminateStopsWorkers ==
    /\ (nterm > 0) ~> AllWorkersExited
    /\ [][\A p \in Procs : IsWorker(p) =>
             /\ (pc[p] = "bcast" /\ Len(bcastq'[p]) < Len(bcastq[p])
                    /\ IsnanAll(Head(bcastq[p]))) =>
                   /\ pc'[p] = "main"
                   /\ replyq' = replyq
             /\ pc[p] = "main" =>
                   /\ pc'[p] = "main"
                   /\ replyq'[p] = replyq[p]
                   /\ Len(bcastq'[p]) >= Len(bcastq[p])]_vars

\* C3 witness: terminate after a completed round, all workers out of the
\* loop
C3_Witness ==
    /\ size = 3 /\ nterm = 1 /\ Len(returned) > 0
    /\ AllWorkersExited
    /\ \A p \in Procs : replyq[p] = <<>>

\* C4: an eval of an all-NaN instruction is rejected before the broadcast:
\* the manager never waits for replies to an all-NaN instruction
C4_AllNanEvalRejected ==
    \A m \in Procs : pc[m] = "recv" => ~IsnanAll(loc[m].ins)

\* C5: after terminate no reply is ever sent, and an eval the manager
\* makes stays in its receive loop with no reply counted
C5_NoEvalAfterTerminate ==
    [][nterm > 0 =>
          /\ \A p \in Procs : replyq'[p] = <<>>
          /\ pc[manager_rank] = "recv" =>
                /\ pc'[manager_rank] = "recv"
                /\ loc'[manager_rank].work_done = 0]_vars

\* C5 witness: the manager is in an eval made after terminate, the workers
\* have left their loops
C5_Witness ==
    /\ size = 3 /\ nterm > 0
    /\ pc[manager_rank] = "recv"
    /\ ~IsnanAll(loc[manager_rank].ins)
    /\ AllWorkersExited

\* C6: evals of the same instruction return the same result vector,
\* whatever was evaluated in between
C6_SameInsSameResult ==
    \A i, j \in 1..Len(returned) :
       returned[i].ins = returned[j].ins => returned[i].res = returned[j].res

\* C6 witness: an instruction evaluated, another one evaluated, the first
\* one evaluated again, with slices of different lengths
C6_Witness ==
    /\ size = 3 /\ work_size = 3 /\ manager_rank = 1
    /\ Len(returned) = 3
    /\ returned[1].ins = returned[3].ins
    /\ returned[2].ins # returned[1].ins
    /\ returned[2].res # returned[1].res

\* C7: in a run with a single process the constructor raises and leaves
\* nothing behind: no table, role or buffer, no loop entered, no message
C7_NoWorkersError ==
    size <= 1 =>
       /\ nbcast = 0
       /\ \A p \in Procs :
             /\ pc[p] \in {"start", "error"}
             /\ DOMAIN obj[p] \subseteq {"size"}
             /\ bcastq[p] = <<>>
             /\ replyq[p] = <<>>
             /\ loc[p] = NoLoc
             /\ ret[p] = NoCall

\* C7 witness: the constructor has raised in the only process
C7_Witness == size = 1 /\ pc[0] = "error"

\* C8: the wrapped function is called, with the argument, exactly when the
\* predicate holds of the rank of the process (the default predicate: the
\* rank is the manager's); otherwise the substitute is called if there is
\* one, and if not nothing is called and None is returned
C8_Confined ==
    wrapped.called # "nocall" =>
       LET holds == IF wrapped.haspred THEN wrapped.proc \in wrapped.ranks
                    ELSE wrapped.proc = manager_rank
       IN  /\ holds =>
                /\ wrapped.called = "function"
                /\ wrapped.val = Some(<<"function", wrapped.arg>>)
           /\ (~holds /\ wrapped.other = "callable") =>
                /\ wrapped.called = "otherwise"
                /\ wrapped.val = Some(<<"otherwise", wrapped.arg>>)
           /\ (~holds /\ wrapped.other = "None") =>
                /\ wrapped.called = "none"
                /\ wrapped.val = None

\* C8 witness: a worker that has left its loop calls a function wrapped
\* with the default predicate and no substitute, the manager not being
\* rank 0
C8_Witness ==
    /\ manager_rank # 0
    /\ wrapped.proc = 0
    /\ ~wrapped.haspred /\ wrapped.other = "None"
    /\ wrapped.called = "none"

\* C9: for every manager rank m in [0, nworker] the table of
\* balance_gatherv_skipmanager has nworker + 1 entries, a zero count at m,
\* and elsewhere the entries of balance_gatherv in order
C9_SkipManagerTable ==
    (/\ ucall.fn = "balance_gatherv_skipmanager"
     /\ ucall.nworker >= 1
     /\ ucall.idx <= ucall.nworker) =>
       LET r == ucall.res
           n == ucall.nworker
           m == ucall.idx
           raw == balance_gatherv(ucall.ntask, n)
           at(i) == IF i < m THEN i ELSE i + 1
       IN  /\ r.err = "none"
           /\ Len0(r.counts) = n + 1
           /\ Len0(r.offsets) = n + 1
           /\ r.counts[m] = 0
           /\ \A i \in 0..(n - 1) :
                 /\ r.counts[at(i)] = raw.counts[i]
                 /\ r.offsets[at(i)] = raw.offsets[i]

\* C10: a worker that has left its loop stays where it is and keeps its
\* session; a call it makes returns (None, None) from eval and None from
\* terminate and changes nothing else: no broadcast, send or receive
C10_WorkerCallsInert ==
    [][\A p \in Procs :
          (IsWorker(p) /\ pc[p] = "main") =>
             /\ pc'[p] = "main"
             /\ obj'[p] = obj[p]
             /\ ret'[p] # ret[p] =>
                   /\ ret'[p] \in {[call |-> "eval", val |-> <<None, None>>],
                                   [call |-> "terminate", val |-> None]}
                   /\ UNCHANGED <<pc, obj, loc, bcastq, replyq, nbcast,
                                  nterm, returned>>]_vars

\* C10 witness: a worker out of its loop has called eval and got
\* (None, None)
C10_Witness ==
    \E p \in Procs :
       /\ IsWorker(p) /\ pc[p] = "main"
       /\ ret[p] = [call |-> "eval", val |-> <<None, None>>]
       /\ nterm = 1


\* the processes whose constructor has set the worker attributes
ConstructedWorkers ==
    {p \in Procs : IsWorker(p) /\ pc[p] \notin {"start", "error"}}

\* C11: the worker ids of the non-manager ranks are pairwise different and
\* fill [0, size - 1) whichever rank is the manager; the manager computes
\* the same id from the source rank of a reply, so that the table entry it
\* copies a reply into is the slice the sending worker computed on
C11_WorkerIdBijection ==
    /\ \A p \in ConstructedWorkers :
          /\ obj[p].myworkerid \in 0..(size - 2)
          /\ obj[p].myworkerid = thisworker(p, manager_rank)
          /\ \A q \in ConstructedWorkers :
                p # q => obj[p].myworkerid # obj[q].myworkerid
          /\ \A m \in Procs :
                pc[m] \in {"main", "recv"} /\ obj[m].ismanager =>
                   PyIndex(obj[m].slice_table,
                           thisworker(p, obj[m].manager_rank))
                      = <<obj[p].mylow, obj[p].myhigh>>
    /\ ConstructedWorkers = Procs \ {manager_rank} =>
          {obj[p].myworkerid : p \in ConstructedWorkers} = 0..(size - 2)

\* C11 witness: the manager is the middle rank of three and has counted
\* the reply of rank 2, worker id 1, while the reply of rank 0 is in flight
C11_Witness ==
    /\ size = 3 /\ manager_rank = 1 /\ work_size = 3
    /\ pc[1] = "recv" /\ loc[1].work_done = 1
    /\ replyq[0] # <<>> /\ replyq[2] = <<>>
    /\ obj[2].myworkerid = 1 /\ obj[0].myworkerid = 0


\* C12: a worker takes a broadcast only while it waits for one, never
\* while it computes; a worker that computes keeps its instruction and
\* goes back to waiting only by sending the callback's result for that
\* instruction (or it dies in the callback); so the all-NaN instruction is
\* seen, and the loop left, only from the waiting state
C12_NoMidRoundCancel ==
    [][\A p \in Procs : IsWorker(p) =>
          /\ Len(bcastq'[p]) < Len(bcastq[p]) => pc[p] = "bcast"
          /\ pc[p] = "work" =>
                /\ obj'[p] = obj[p]
                /\ pc'[p] \in {"work", "bcast", "crashed"}
                /\ pc'[p] = "bcast" =>
                      replyq'[p] = Append(replyq[p],
                         [tag |-> tag_data,
                          payload |-> worker_routine(obj[p].ins_buf,
                             Slice0(Dataset(work_size),
                                    obj[p].mylow, obj[p].myhigh))])
                /\ pc'[p] # "bcast" => replyq'[p] = replyq[p]
          /\ (pc'[p] = "main" /\ pc[p] # "main") =>
                /\ pc[p] = "bcast"
                /\ IsnanAll(Head(bcastq[p]))
                /\ replyq[p] = <<>>]_vars

\* C12 witness: terminate after a completed round; one worker has seen the
\* sentinel, the other one has replied and waits with the sentinel queued
C12_Witness ==
    /\ size = 3 /\ nterm = 1 /\ Len(returned) = 1
    /\ \E p, q \in Procs :
          /\ IsWorker(p) /\ IsWorker(q)
          /\ pc[p] = "main"
          /\ pc[q] = "bcast" /\ bcastq[q] = <<NanArray(InsSize)>>
          /\ ~IsnanAll(obj[q].ins_buf)


InLoop(s) == s \in {"bcast", "work"}

\* C13: a process enters the worker loop only from its constructor; a call
\* of startworker made later, by the manager or by a worker whose loop has
\* ended, returns None with the process where it was: the loop is not
\* entered, nothing is received from a broadcast and nothing is sent
C13_LoopEnteredOnce ==
    [][\A p \in Procs :
          /\ (InLoop(pc'[p]) /\ ~InLoop(pc[p])) =>
                /\ pc[p] = "start"
                /\ IsWorker(p)
          /\ (ret'[p] # ret[p] /\ ret'[p].call = "startworker") =>
                /\ ret'[p].val = None
                /\ pc[p] = "main"
                /\ pc' = pc
                /\ obj' = obj
                /\ UNCHANGED <<loc, bcastq, replyq, nbcast, nterm>>]_vars

\* C13 witness: a worker whose loop has ended and the manager have both
\* called startworker, and the worker is still out of its loop
C13_Witness ==
    \E p \in Procs :
       /\ IsWorker(p) /\ pc[p] = "main" /\ obj[p].worker_started
       /\ ret[p].call = "startworker"
       /\ ret[manager_rank].call = "startworker"
       /\ nterm = 1


Crashed == {p \in Procs : IsWorker(p) /\ pc[p] = "crashed"}

\* C14: once the callback of a worker has raised, that worker has sent
\* nothing for the round and takes no further step, the eval of the round
\* never returns (the manager stays in its receive loop, with fewer
\* replies counted than there are workers), and every other worker ends up
\* waiting at a broadcast that does not come, unless its callback raises
\* as well
C14_CallbackFailureBlocks ==
    /\ [](Crashed # {} =>
            /\ pc[manager_rank] = "recv"
            /\ loc[manager_rank].work_done < obj[manager_rank].nworkers
            /\ loc[manager_rank].work_done
                  <= obj[manager_rank].nworkers - Cardinality(Crashed)
            /\ \A p \in Crashed : replyq[p] = <<>>
            /\ \A q \in Procs : IsWorker(q) =>
                  /\ pc[q] \in {"start", "bcast", "work", "crashed"}
                  /\ bcastq[q] \in {<<>>, <<loc[manager_rank].ins>>}
                  /\ ~IsnanAll(loc[manager_rank].ins))
    /\ [][\A p \in Procs :
             (IsWorker(p) /\ pc[p] = "work" /\ pc'[p] = "crashed") =>
                replyq' = replyq]_vars
    /\ (Crashed # {}) ~>
          [](\A q \in Procs : IsWorker(q) =>
                \/ pc[q] = "crashed"
                \/ /\ pc[q] = "bcast" /\ bcastq[q] = <<>>
                   /\ replyq[q] = <<>>)

\* C14 witness: of two workers one has raised in the second round; the
\* reply of the other one has been counted, that worker waits for a
\* broadcast and the manager for a reply
C14_Witness ==
    /\ size = 3 /\ Len(returned) = 1
    /\ pc[manager_rank] = "recv" /\ loc[manager_rank].work_done = 1
    /\ \E p, q \in Procs :
          /\ IsWorker(p) /\ IsWorker(q)
          /\ pc[p] = "crashed"
          /\ pc[q] = "bcast" /\ bcastq[q] = <<>> /\ replyq[q] = <<>>


\* C15: an eval given an interlude calls it once, in the step after the
\* broadcast of the instruction and before any reply is received, and
\* returns its value as the second component; an eval given none calls
\* nothing and returns None there
C15_InterludeOnce ==
    [][\A m \in Procs :
          /\ (pc[m] = "main" /\ pc'[m] # "main") =>
                /\ nbcast' = nbcast + 1
                /\ \A q \in Procs \ {m} :
                      bcastq'[q] = Append(bcastq[q], loc'[m].ins)
                /\ loc'[m].icalls = 0 /\ loc'[m].work_done = 0
                /\ pc'[m] = IF loc'[m].il THEN "interlude" ELSE "recv"
          /\ pc[m] = "interlude" =>
                /\ loc[m].il /\ loc[m].icalls = 0 /\ loc[m].work_done = 0
                /\ \A src \in Procs : Len(replyq'[src]) >= Len(replyq[src])
                /\ pc'[m] # "interlude" =>
                      /\ pc'[m] = "recv"
                      /\ loc'[m].icalls = 1
                      /\ loc'[m].ires = Some("ires")
                      /\ loc'[m].work_done = 0
                      /\ UNCHANGED <<bcastq, replyq, nbcast>>
          /\ pc[m] = "recv" =>
                /\ loc[m].icalls = (IF loc[m].il THEN 1 ELSE 0)
                /\ loc[m].ires = (IF loc[m].il THEN Some("ires") ELSE None)
                /\ pc'[m] = "recv" =>
                      /\ loc'[m].icalls = loc[m].icalls
                      /\ loc'[m].ires = loc[m].ires
                /\ pc'[m] = "main" =>
                      /\ ret'[m].call = "eval"
                      /\ ret'[m].val[2] =
                            (IF loc[m].il THEN Some("ires") ELSE None)]_vars

\* C15 witness: two evals have returned, the second one made with an
\* interlude, whose value is the second component of what it returned
C15_Witness ==
    /\ size = 3 /\ Len(returned) = 2
    /\ pc[manager_rank] = "main"
    /\ ret[manager_rank].call = "eval"
    /\ ret[manager_rank].val[2] = Some("ires")


\* counts[0] + ... + counts[i - 1]
RECURSIVE SumUpTo(_, _)
SumUpTo(counts, i) ==
    IF i = 0 THEN 0 ELSE SumUpTo(counts, i - 1) + counts[i - 1]

\* C16: for nworker >= 1 balance_gatherv returns nworker counts and
\* nworker offsets, each offset the sum of the counts before it, and
\* offset and offset + count of index i are the range of balance for i
C16_GathervMatchesBalance ==
    (ucall.fn = "balance_gatherv" /\ ucall.nworker >= 1) =>
       LET r == ucall.res
           n == ucall.nworker
       IN  /\ r.err = "none"
           /\ Len0(r.counts) = n
           /\ Len0(r.offsets) = n
           /\ DOMAIN r.counts = 0..(n - 1)
           /\ DOMAIN r.offsets = 0..(n - 1)
           /\ \A i \in 0..(n - 1) :
                 /\ r.offsets[i] = SumUpTo(r.counts, i)
                 /\ <<r.offsets[i], r.offsets[i] + r.counts[i]>>
                       = balance(ucall.ntask, n, i)

\* C16 witness: five tasks for three workers, counts 2, 2, 1 at offsets
\* 0, 2, 4
C16_Witness ==
    /\ ucall.fn = "balance_gatherv" /\ ucall.ntask = 5 /\ ucall.nworker = 3
    /\ ucall.res.counts[0] = 2 /\ ucall.res.counts[2] = 1
    /\ ucall.res.offsets[2] = 4


\* the workers whose reply of the running round has been received: they
\* have taken the instruction, sent, and the message is gone from the queue
Counted ==
    {p \in Procs : /\ IsWorker(p) /\ pc[p] = "bcast"
                   /\ bcastq[p] = <<>> /\ replyq[p] = <<>>}

\* C17: a worker never has more than one reply in flight; a reply in
\* flight was computed from the instruction of the eval that is running,
\* by a worker that now waits for the next broadcast; the replies counted
\* in a round are those of as many different workers; and whenever the
\* manager is outside eval, so when eval has returned and when terminate
\* is called, no reply is in flight
C17_OneReplyPerWorkerPerRound ==
    /\ \A p \in Procs :
          /\ Len(replyq[p]) <= 1
          /\ replyq[p] # <<>> =>
                /\ IsWorker(p)
                /\ pc[p] = "bcast" /\ bcastq[p] = <<>>
                /\ pc[manager_rank] = "recv"
                /\ replyq[p][1].payload =
                      worker_routine(loc[manager_rank].ins,
                         Slice0(Dataset(work_size),
                                obj[p].mylow, obj[p].myhigh))
    /\ pc[manager_rank] = "recv" =>
          /\ loc[manager_rank].work_done = Cardinality(Counted)
          /\ loc[manager_rank].work_done < obj[manager_rank].nworkers
    /\ pc[manager_rank] = "main" =>
          \A p \in Procs : replyq[p] = <<>>

\* C17 witness: in the second round, made with another instruction than
\* the first, one reply has been counted and the other one is in flight
C17_Witness ==
    /\ size = 3 /\ Len(returned) = 1
    /\ pc[manager_rank] = "recv"
    /\ loc[manager_rank].ins # returned[1].ins
    /\ loc[manager_rank].work_done = 1
    /\ Cardinality(Counted) = 1
    /\ \E p \in Procs : Len(replyq[p]) = 1


\* C18: the receive buffer of a constructed manager has the length of the
\* slice of worker id 0 and is not shorter than the slice of any worker,
\* nor than any reply in flight, whatever the dataset length and the
\* number of workers
C18_RecvBufferFits ==
    \A m \in Procs :
       (pc[m] \in {"main", "recv", "crashed"} /\ obj[m].ismanager) =>
          LET blen == Len0(obj[m].managerrecvbuf)
              st == obj[m].slice_table
          IN  /\ blen = st[0][2] - st[0][1]
              /\ \A w \in 0..(obj[m].nworkers - 1) :
                    st[w][2] - st[w][1] <= blen
              /\ \A p \in Procs : \A k \in 1..Len(replyq[p]) :
                    Len0(replyq[p][k].payload) <= blen
              /\ pc[m] # "crashed"

\* C18 witness: three items for two workers: the buffer has two elements,
\* a reply of one element, from the worker with the shorter slice, is in
\* flight
C18_Witness ==
    /\ size = 3 /\ work_size = 3
    /\ pc[manager_rank] = "recv"
    /\ Len0(obj[manager_rank].managerrecvbuf) = 2
    /\ \E p \in Procs :
          /\ Len(replyq[p]) = 1
          /\ Len0(replyq[p][1].payload) = 1


\* C19: the step that receives the reply of a worker writes the elements
\* of that reply, in order, to the worker's range of the result buffer and
\* changes no other element of it; what an earlier, longer reply left in
\* the rest of the receive buffer goes nowhere
C19_ReceiveFrame ==
    [][\A m \in Procs, src \in Procs :
          (pc[m] = "recv" /\ Len(replyq'[src]) < Len(replyq[src])) =>
             LET low == obj[src].mylow
                 high == obj[src].myhigh
                 msg == Head(replyq[src]).payload
             IN  /\ DOMAIN obj'[m].res_buf = DOMAIN obj[m].res_buf
                 /\ Len0(msg) = high - low
                 /\ \A i \in DOMAIN obj[m].res_buf :
                       obj'[m].res_buf[i] =
                          IF low <= i /\ i < high
                          THEN msg[i - low]
                          ELSE obj[m].res_buf[i]
                 /\ \A i \in DOMAIN obj[m].managerrecvbuf :
                       obj'[m].managerrecvbuf[i] =
                          IF i < high - low
                          THEN msg[i]
                          ELSE obj[m].managerrecvbuf[i]]_vars

\* C19 witness: the reply of the worker with the shorter slice has been
\* received after that of the other one: the second element of the
\* receive buffer is still that of the longer reply, and it is in the
\* result buffer only where the longer reply put it
C19_Witness ==
    /\ size = 3 /\ work_size = 3 /\ manager_rank = 0
    /\ pc[0] = "main" /\ Len(returned) = 1
    /\ ~IsnanAll(returned[1].ins)
    /\ obj[0].managerrecvbuf[0] = obj[0].res_buf[2]
    /\ obj[0].managerrecvbuf[1] = obj[0].res_buf[1]
    /\ obj[0].res_buf[2] # obj[0].res_buf[1]


\* everything has been done: every eval made has returned, terminate has
\* been called, every process is out of its method, no message is left
AllLeft ==
    /\ nterm = 1
    /\ Len(returned) + 1 = nbcast
    /\ \A p \in Procs :
          pc[p] = "main" /\ bcastq[p] = <<>> /\ replyq[p] = <<>>

\* C20: when no callback raises, the manager evaluates instructions that
\* are not all NaN and then terminates once, and the processes are
\* scheduled fairly, every eval returns and in the end the manager and
\* all workers are out of the protocol, with nothing left to receive
C20_NoDeadlock ==
    /\ (pc[manager_rank] = "recv") ~> (pc[manager_rank] = "main")
    /\ [](pc[manager_rank] = "recv" =>
            Len(returned) + 1 = nbcast /\ nterm = 0)
    /\ (size >= 2) ~> []AllLeft

\* C20 witness: two evals and the terminate of a run of three processes
\* are done
C20_Witness ==
    /\ size = 3 /\ work_size = 3
    /\ Len(returned) = MaxBcasts - 1
    /\ returned[1].ins # returned[2].ins
    /\ AllLeft

====
